---- MODULE Spec2Model ----
(***************************************************************************)
(* cosmoline: per-file rendering of an llvm coverage report.               *)
(*                                                                         *)
(* Text is modelled as Rust holds it: a String is a sequence of UTF-8      *)
(* bytes (integers 0..255).  A character is one byte below 128, or a lead  *)
(* byte followed by continuation bytes (128..191).  Character indexes and  *)
(* byte offsets are 0-based as in Rust; TLA+ sequences are 1-based, so     *)
(* byte offset o is element o + 1.                                         *)
(***************************************************************************)
EXTENDS Integers, Sequences, FiniteSets, TLC

\* ------------------------------------------------------------------------
\* Bounds of the model
\* ------------------------------------------------------------------------
\* longest segment list of a generated report
MaxSegs == 3
\* largest column number of a generated segment
MaxCol == 3
\* most characters of a line handed to insert_at_char on its own
MaxChars == 3
\* largest character index handed to insert_at_char on its own
MaxIndex == 4
\* most consecutive insert_at_char calls on one line
MaxCalls == 2
\* most values a generated positional array holds beyond its arity
MaxExtra == 1
\* most positional arrays of a generated report
MaxArrays == 2
\* most file entries of a generated report
MaxFiles == 2
\* the most negative whole percent handed to color_for_percent
MaxBelowZero == 20
\* the largest whole percent handed to color_for_percent
MaxPercent == 100

\* ------------------------------------------------------------------------
\* UTF-8 text
\* ------------------------------------------------------------------------
\* "a", "b", "c" and the two-byte Cyrillic letter U+0434
ChA == <<97>>
ChB == <<98>>
ChC == <<99>>
ChDe == <<208, 180>>

\* a byte that continues a multi-byte character (0b10xxxxxx)
IsContinuation(b) == b >= 128 /\ b < 192

\* str::is_char_boundary
is_char_boundary(self, index) ==
    \/ index = 0
    \/ index = Len(self)
    \/ index > 0 /\ index < Len(self) /\ ~IsContinuation(self[index + 1])

\* str::char_indices, collected: the byte offset of every character
RECURSIVE CharIndicesFrom(_, _)
CharIndicesFrom(self, o) ==
    IF o >= Len(self) THEN <<>>
    ELSE IF IsContinuation(self[o + 1]) THEN CharIndicesFrom(self, o + 1)
    ELSE <<o>> \o CharIndicesFrom(self, o + 1)

char_indices(self) == CharIndicesFrom(self, 0)

\* the number of characters of a text
CharCount(self) == Len(char_indices(self))

\* valid UTF-8 over the alphabet of the model: every lead byte of a two-byte
\* character is followed by exactly one continuation byte, and no
\* continuation byte stands alone
RECURSIVE ValidUtf8From(_, _)
ValidUtf8From(self, o) ==
    IF o >= Len(self) THEN TRUE
    ELSE IF self[o + 1] < 128 THEN ValidUtf8From(self, o + 1)
    ELSE IF self[o + 1] >= 192 /\ self[o + 1] < 224
         THEN /\ o + 1 < Len(self)
              /\ IsContinuation(self[o + 2])
              /\ ValidUtf8From(self, o + 2)
    ELSE FALSE

ValidUtf8(self) == ValidUtf8From(self, 0)

\* String::insert_str, which shifts the tail right; the caller has checked
\* the offset
InsertStrOverwrite(self, idx, string) ==
    SubSeq(self, 1, idx) \o string \o SubSeq(self, idx + 2, Len(self))

insert_str(self, idx, string) ==
    SubSeq(self, 1, idx) \o string \o SubSeq(self, idx + 1, Len(self))

\* String::push_str
push_str(self, string) == self \o string

\* Where insert_at_char writes: the byte offset handed to push_str or
\* insert_str, and whether insert_str panics there (an offset that is not a
\* character boundary).
InsertOffsetByteLen(self, index) ==
    LET char_indexes == char_indices(self)
    IN IF index >= Len(self)
       THEN [panic |-> FALSE, at |-> Len(self)]
       ELSE IF index >= Len(char_indexes)
       THEN [panic |-> TRUE, at |-> Len(self)]
       ELSE LET off == char_indexes[index + 1]
            IN IF off > 0
               THEN [panic |-> ~is_char_boundary(self, off - 1), at |-> off - 1]
               ELSE [panic |-> FALSE, at |-> off]

InsertOffset(self, index) ==
    LET char_indexes == char_indices(self)
    IN IF index >= Len(char_indexes)
       THEN [panic |-> FALSE, at |-> Len(self)]
       ELSE LET off == char_indexes[index + 1]
            IN IF off >= Len(self)
               THEN [panic |-> FALSE, at |-> Len(self)]
               ELSE IF off > 0
               THEN [panic |-> ~is_char_boundary(self, off - 1), at |-> off - 1]
               ELSE [panic |-> FALSE, at |-> off]

\* InsertAtCharacter::insert_at_char for String
insert_at_char(self, index, s) ==
    LET w == InsertOffset(self, index)
    IN [panic |-> w.panic,
        text |-> IF w.panic THEN self
                 ELSE IF w.at = Len(self) THEN push_str(self, s)
                 ELSE insert_str(self, w.at, s)]

\* ------------------------------------------------------------------------
\* Markers and their final markup
\* ------------------------------------------------------------------------
\* "{{ end_segment }}"
EndMarker == <<123, 123, 32, 101, 110, 100, 95, 115, 101, 103, 109, 101, 110, 116, 32, 125, 125>>

\* "{{ start_segment " and " }}", the fixed parts of the begin marker
StartPrefix == <<123, 123, 32, 115, 116, 97, 114, 116, 95, 115, 101, 103, 109, 101, 110, 116, 32>>
StartSuffix == <<32, 125, 125>>
Space == <<32>>
Minus == <<45>>

IsDigit(b) == b >= 48 /\ b <= 57

\* Display of an unsigned integer, most significant digit first
RECURSIVE Digits(_)
Digits(n) ==
    IF n < 10 THEN <<48 + n>> ELSE Digits(n \div 10) \o <<48 + (n % 10)>>

\* Display of an i64: a minus sign before the digits of a negative value
Decimal(n) == IF n < 0 THEN Minus \o Digits(0 - n) ELSE Digits(n)

\* format!("{{{{ start_segment {} {} }}}}", seg_idx, segment.count)
StartMarker(seg_idx, count) ==
    StartPrefix \o Digits(seg_idx) \o Space \o Decimal(count) \o StartSuffix

\* ------------------------------------------------------------------------
\* The collapsing loop
\* ------------------------------------------------------------------------
\* One iteration of the loop over file.segments: a region entry pushes a new
\* Seg, any other segment extends the last Seg; last_mut().unwrap() panics
\* when there is none.
CollapseSkipOrphan(segments, segment) ==
    IF segment.is_region_entry
    THEN [panic |-> FALSE,
          segments |-> Append(segments,
              [start_col |-> segment.col, stop_col |-> segment.col,
               start_row |-> segment.line, stop_row |-> segment.line,
               count |-> segment.count])]
    ELSE IF segments = <<>>
    THEN [panic |-> FALSE, segments |-> segments]
    ELSE LET n == Len(segments)
         IN [panic |-> FALSE,
             segments |-> [segments EXCEPT
                 ![n].stop_col = segment.col,
                 ![n].stop_row = segment.line,
                 ![n].count = segments[n].count + segment.count]]

CollapseOverwriteCount(segments, segment) ==
    IF segment.is_region_entry
    THEN [panic |-> FALSE,
          segments |-> Append(segments,
              [start_col |-> segment.col, stop_col |-> segment.col,
               start_row |-> segment.line, stop_row |-> segment.line,
               count |-> segment.count])]
    ELSE IF segments = <<>>
    THEN [panic |-> TRUE, segments |-> segments]
    ELSE LET n == Len(segments)
         IN [panic |-> FALSE,
             segments |-> [segments EXCEPT
                 ![n].stop_col = segment.col,
                 ![n].stop_row = segment.line,
                 ![n].count = segment.count]]

collapse_segment(segments, segment) ==
    IF segment.is_region_entry
    THEN [panic |-> FALSE,
          segments |-> Append(segments,
              [start_col |-> segment.col, stop_col |-> segment.col,
               start_row |-> segment.line, stop_row |-> segment.line,
               count |-> segment.count])]
    ELSE IF segments = <<>>
    THEN [panic |-> TRUE, segments |-> segments]
    ELSE LET n == Len(segments)
         IN [panic |-> FALSE,
             segments |-> [segments EXCEPT
                 ![n].stop_col = segment.col,
                 ![n].stop_row = segment.line,
                 ![n].count = segments[n].count + segment.count]]

\* segments.into_iter().rev().collect()
ReverseKeepsOrder(seq) == seq

Reverse(seq) == [k \in 1..Len(seq) |-> seq[Len(seq) + 1 - k]]

\* ------------------------------------------------------------------------
\* The annotation loop
\* ------------------------------------------------------------------------
\* The calls one iteration makes, in order.  Each call names the line index
\* (0-based), whether it is push_str or insert_at_char, the character index
\* and the kind of marker.
MiddleCallsStopShort(from, to) ==
    [k \in 1..(2 * (IF to - 1 >= from THEN to - from ELSE 0)) |->
        LET row == from + ((k - 1) \div 2)
        IN IF k % 2 = 1
           THEN [line_index |-> row - 1, push |-> TRUE, index |-> 0, kind |-> "end"]
           ELSE [line_index |-> row - 1, push |-> FALSE, index |-> 0, kind |-> "begin"]]

MiddleCalls(from, to) ==
    [k \in 1..(2 * (IF to >= from THEN to - from + 1 ELSE 0)) |->
        LET row == from + ((k - 1) \div 2)
        IN IF k % 2 = 1
           THEN [line_index |-> row - 1, push |-> TRUE, index |-> 0, kind |-> "end"]
           ELSE [line_index |-> row - 1, push |-> FALSE, index |-> 0, kind |-> "begin"]]

SpanCalls(segment) ==
    IF segment.start_row = segment.stop_row
    THEN << [line_index |-> segment.start_row - 1, push |-> FALSE,
             index |-> segment.stop_col, kind |-> "end"],
            [line_index |-> segment.start_row - 1, push |-> FALSE,
             index |-> segment.start_col, kind |-> "begin"] >>
    ELSE << [line_index |-> segment.start_row - 1, push |-> TRUE,
             index |-> 0, kind |-> "end"],
            [line_index |-> segment.start_row - 1, push |-> FALSE,
             index |-> segment.start_col, kind |-> "begin"],
            [line_index |-> segment.stop_row - 1, push |-> FALSE,
             index |-> segment.stop_col, kind |-> "end"],
            [line_index |-> segment.stop_row - 1, push |-> FALSE,
             index |-> 0, kind |-> "begin"] >>
         \o MiddleCalls(segment.start_row + 1, segment.stop_row - 1)

\* The text of a call's marker
MarkerText(call, seg_idx, segment) ==
    IF call.kind = "end" THEN EndMarker ELSE StartMarker(seg_idx, segment.count)

\* One call applied to the lines and to the record of where each byte came
\* from.  st.origin[l][o] is <<"src", 0>> for a byte of the source file and
\* <<kind, seg_idx>> for a byte of a marker.  Indexing lines beyond the end
\* panics, and so does insert_str off a character boundary.
ApplyCall(st, call, seg_idx, segment) ==
    IF st.panic THEN st
    ELSE IF call.line_index >= Len(st.lines) THEN [st EXCEPT !.panic = TRUE]
    ELSE LET l == call.line_index + 1
             text == st.lines[l]
             marker == MarkerText(call, seg_idx, segment)
             tags == [k \in 1..Len(marker) |-> <<call.kind, seg_idx>>]
             w == IF call.push THEN [panic |-> FALSE, at |-> Len(text)]
                  ELSE InsertOffset(text, call.index)
             r == IF call.push THEN [panic |-> FALSE, text |-> push_str(text, marker)]
                  ELSE insert_at_char(text, call.index, marker)
         IN IF r.panic THEN [st EXCEPT !.panic = TRUE]
            ELSE [panic |-> FALSE,
                  lines |-> [st.lines EXCEPT ![l] = r.text],
                  origin |-> [st.origin EXCEPT ![l] =
                      IF w.at = Len(text) THEN push_str(st.origin[l], tags)
                      ELSE insert_str(st.origin[l], w.at, tags)]]

RECURSIVE ApplyCalls(_, _, _, _)
ApplyCalls(st, calls, seg_idx, segment) ==
    IF calls = <<>> THEN st
    ELSE ApplyCalls(ApplyCall(st, Head(calls), seg_idx, segment),
                    Tail(calls), seg_idx, segment)

\* One iteration of the loop over segments.iter().enumerate()
annotate_span(st, seg_idx, segment) ==
    ApplyCalls(st, SpanCalls(segment), seg_idx, segment)

\* ------------------------------------------------------------------------
\* The substitution pass
\* ------------------------------------------------------------------------
\* The page is a sequence of tokens: a byte of text, the closing wrapper
\* "</span>", or the opening wrapper "<span class='hit' title=... >" with
\* the two captured digit strings it carries.
ByteTok(b) == [t |-> "byte", b |-> b, index |-> <<>>, count |-> <<>>]
CloseTok == [t |-> "close", b |-> 0, index |-> <<>>, count |-> <<>>]
OpenTok(index, count) == [t |-> "open", b |-> 0, index |-> index, count |-> count]

\* the bytes of pat stand at byte offset o of text
BytesAt(text, o, pat) ==
    /\ o + Len(pat) <= Len(text)
    /\ \A k \in 1..Len(pat) : text[o + k] = pat[k]

\* str::replace("{{ end_segment }}", "</span>"): every non-overlapping
\* occurrence, left to right
RECURSIVE ReplaceEndFrom(_, _)
ReplaceEndFrom(text, o) ==
    IF o >= Len(text) THEN <<>>
    ELSE IF BytesAt(text, o, EndMarker)
    THEN <<CloseTok>> \o ReplaceEndFrom(text, o + Len(EndMarker))
    ELSE <<ByteTok(text[o + 1])>> \o ReplaceEndFrom(text, o + 1)

replace_end(text) == ReplaceEndFrom(text, 0)

\* the literal pat stands at offset o of the token sequence
LitAt(toks, o, pat) ==
    /\ o + Len(pat) <= Len(toks)
    /\ \A k \in 1..Len(pat) : toks[o + k].t = "byte" /\ toks[o + k].b = pat[k]

\* \d+ : the length of the longest run of digits at offset o
RECURSIVE DigitRun(_, _)
DigitRun(toks, o) ==
    IF o < Len(toks) /\ toks[o + 1].t = "byte" /\ IsDigit(toks[o + 1].b)
    THEN 1 + DigitRun(toks, o + 1)
    ELSE 0

TokBytes(toks, from, n) == [k \in 1..n |-> toks[from + k].b]

\* Regex \{\{ start_segment (\d+) (\d+) \}\} tried at offset o
MatchStart(toks, o) ==
    LET p1 == o + Len(StartPrefix)
        d1 == DigitRun(toks, p1)
        p2 == p1 + d1
        d2 == DigitRun(toks, p2 + 1)
        p3 == p2 + 1 + d2
        ok == /\ LitAt(toks, o, StartPrefix)
              /\ d1 > 0
              /\ LitAt(toks, p2, Space)
              /\ d2 > 0
              /\ LitAt(toks, p3, StartSuffix)
    IN IF ok
       THEN [ok |-> TRUE, len |-> p3 + Len(StartSuffix) - o,
             index |-> TokBytes(toks, p1, d1), count |-> TokBytes(toks, p2 + 1, d2)]
       ELSE [ok |-> FALSE, len |-> 0, index |-> <<>>, count |-> <<>>]

\* Regex::replace_all with the opening wrapper: ${1} is the segment index,
\* ${2} the hit count
RECURSIVE ReplaceStartFrom(_, _)
ReplaceStartFrom(toks, o) ==
    IF o >= Len(toks) THEN <<>>
    ELSE LET m == MatchStart(toks, o)
         IN IF m.ok
            THEN <<OpenTok(m.index, m.count)>> \o ReplaceStartFrom(toks, o + m.len)
            ELSE <<toks[o + 1]>> \o ReplaceStartFrom(toks, o + 1)

replace_start(toks) == ReplaceStartFrom(toks, 0)

\* handlebars.render("file", &context): the page body holds the contents
\* lines in order; no byte of the model's alphabet is HTML-escaped
RenderTemplate(contents) == contents

\* the page of a file: the template, then both replacements
render_page(contents) ==
    LET page == RenderTemplate(contents)
    IN [l \in 1..Len(page) |-> replace_start(replace_end(page[l]))]

\* ------------------------------------------------------------------------
\* Inputs
\* ------------------------------------------------------------------------
\* the source files of the generated reports: the one line "a" U+0434 "b",
\* and the three lines "a", "" and "ab"
Sources ==
    { << ChA \o ChDe \o ChB >>,
      << ChA, <<>>, ChA \o ChB >> }

\* hit counts of the generated region entries and of the other segments
EntryCounts == {12}
OtherCounts == {-13}

\* [line, col, count, has_count, is_region_entry, is_gap_region]
SegmentsOf(src) ==
    [line : 1..Len(src), col : 1..MaxCol, count : EntryCounts,
     has_count : {TRUE}, is_region_entry : {TRUE}, is_gap_region : {FALSE}]
    \cup
    [line : 1..Len(src), col : 1..MaxCol, count : OtherCounts,
     has_count : {TRUE}, is_region_entry : {FALSE}, is_gap_region : {FALSE}]

\* the report lists a file's segments sorted by (line, column)
NotBefore(a, b) == a.line > b.line \/ (a.line = b.line /\ a.col >= b.col)

\* the scenario of a three-line file with segments
\* [(1,1,5,true,true,false), (1,10,0,true,false,false), (2,1,3,true,true,false)]
ScenarioSegments ==
    << [line |-> 1, col |-> 1, count |-> 5, has_count |-> TRUE,
        is_region_entry |-> TRUE, is_gap_region |-> FALSE],
       [line |-> 1, col |-> 10, count |-> 0, has_count |-> TRUE,
        is_region_entry |-> FALSE, is_gap_region |-> FALSE],
       [line |-> 2, col |-> 1, count |-> 3, has_count |-> TRUE,
        is_region_entry |-> TRUE, is_gap_region |-> FALSE] >>

Line12 == ChA \o ChB \o ChC \o ChA \o ChB \o ChC \o ChA \o ChB \o ChC \o ChA \o ChB \o ChC

ScenarioSources ==
    { << Line12, ChA \o ChB, ChC >>,
      << ChA \o ChB \o ChC, <<>>, ChA >> }

\* texts of at most MaxChars characters over "a" and U+0434
RECURSIVE TextsOf(_)
TextsOf(n) ==
    IF n = 0 THEN { <<>> }
    ELSE LET shorter == TextsOf(n - 1)
         IN shorter \cup { t \o c : t \in shorter, c \in {ChA, ChDe} }

\* the markers the program inserts
Markers == { EndMarker, StartMarker(0, 12) }

SrcTags(text) == [k \in 1..Len(text) |-> <<"src", 0>>]

\* ------------------------------------------------------------------------
\* State
\* ------------------------------------------------------------------------
VARIABLES
    pc,             \* where main / RenderFile::render stands
    source,         \* the lines of the source file on disk
    file_segments,  \* file.segments of the report
    seg_i,          \* 1-based position of the collapsing loop
    segments,       \* the Vec<Seg> of collapsed spans
    seg_idx,        \* position of the annotation loop
    lines,          \* the lines being annotated
    origin,         \* for every byte of lines, where it came from
    output,         \* the page returned by render
    ins_text,       \* a String insert_at_char is called on
    ins_before,     \* that String before the last call
    ins_index,      \* the character index of the last call
    ins_marker,     \* the text handed to the last call
    ins_calls,      \* calls made so far
    ins_panic       \* TRUE when the last call panicked

VARIABLES
    dec_target,     \* the type a positional array is decoded into
    dec_input,      \* the values of the array read so far
    dec_result,     \* what deserialize did with the array
    main_pc,        \* where main stands
    report,         \* the report file handed to main
    parse_i,        \* positional arrays of the report decoded so far
    file_i,         \* files of file_coverage rendered so far
    dir,            \* the files of the output directory
    percent,        \* a percent handed to color_for_percent
    color           \* what color_for_percent did with it

vars == << pc, source, file_segments, seg_i, segments, seg_idx, lines, origin,
           output, ins_text, ins_before, ins_index, ins_marker, ins_calls,
           ins_panic, dec_target, dec_input, dec_result, main_pc, report,
           parse_i, file_i, dir, percent, color >>

decode_vars == << dec_target, dec_input, dec_result >>

main_vars == << main_pc, report, parse_i, file_i, dir >>

color_vars == << percent, color >>

DecodeIdle ==
    /\ dec_target = "none"
    /\ dec_input = <<>>
    /\ dec_result = "none"

MainIdle ==
    /\ main_pc = "idle"
    /\ report = <<>>
    /\ parse_i = 0
    /\ file_i = 0
    /\ dir = {}

ColorIdle ==
    /\ percent = [nan |-> FALSE, whole |-> 0, frac |-> FALSE]
    /\ color = "none"

render_vars == << pc, source, file_segments, seg_i, segments, seg_idx, lines,
                  origin, output >>

insert_vars == << ins_text, ins_before, ins_index, ins_marker, ins_calls,
                  ins_panic >>

InsertIdle ==
    /\ ins_text = <<>>
    /\ ins_before = <<>>
    /\ ins_index = 0
    /\ ins_marker = <<>>
    /\ ins_calls = 0
    /\ ins_panic = FALSE

RenderIdle ==
    /\ pc = "idle"
    /\ source = <<>>
    /\ file_segments = <<>>
    /\ seg_i = 1
    /\ segments = <<>>
    /\ seg_idx = 0
    /\ lines = <<>>
    /\ origin = <<>>
    /\ output = <<>>

\* ------------------------------------------------------------------------
\* Rendering one file of a report
\* ------------------------------------------------------------------------
InitReport ==
    /\ pc = "deserialize"
    /\ source \in Sources
    /\ file_segments = <<>>

InitScenario ==
    /\ pc = "deserialize"
    /\ source \in ScenarioSources
    /\ file_segments = ScenarioSegments

Init ==
    /\ (InitReport \/ InitScenario)
    /\ seg_i = 1
    /\ segments = <<>>
    /\ seg_idx = 0
    /\ lines = <<>>
    /\ origin = <<>>
    /\ output = <<>>
    /\ InsertIdle
    /\ DecodeIdle
    /\ MainIdle
    /\ ColorIdle

\* serde reads the next positional array of the file's segments
Deserialize ==
    /\ pc = "deserialize"
    /\ Len(file_segments) < MaxSegs
    /\ \E segment \in SegmentsOf(source) :
          /\ IF file_segments = <<>> THEN TRUE
             ELSE NotBefore(segment, file_segments[Len(file_segments)])
          /\ file_segments' = Append(file_segments, segment)
    /\ UNCHANGED << pc, source, seg_i, segments, seg_idx, lines, origin, output >>
    /\ UNCHANGED << insert_vars, decode_vars, main_vars, color_vars >>

\* the source file is opened and read into lines
ReadSource ==
    /\ pc = "deserialize"
    /\ pc' = "collapse"
    /\ lines' = source
    /\ origin' = [l \in 1..Len(source) |-> SrcTags(source[l])]
    /\ UNCHANGED << source, file_segments, seg_i, segments, seg_idx, output >>
    /\ UNCHANGED << insert_vars, decode_vars, main_vars, color_vars >>

\* one iteration of the collapsing loop
CollapseStep ==
    /\ pc = "collapse"
    /\ seg_i <= Len(file_segments)
    /\ LET r == collapse_segment(segments, file_segments[seg_i])
       IN /\ pc' = IF r.panic THEN "panicked" ELSE "collapse"
          /\ segments' = r.segments
    /\ seg_i' = seg_i + 1
    /\ UNCHANGED << source, file_segments, seg_idx, lines, origin, output >>
    /\ UNCHANGED << insert_vars, decode_vars, main_vars, color_vars >>

\* the loop is over: the spans are reversed
ReverseSpans ==
    /\ pc = "collapse"
    /\ seg_i > Len(file_segments)
    /\ segments' = Reverse(segments)
    /\ pc' = "annotate"
    /\ UNCHANGED << source, file_segments, seg_i, seg_idx, lines, origin, output >>
    /\ UNCHANGED << insert_vars, decode_vars, main_vars, color_vars >>

\* one iteration of the annotation loop
AnnotateStep ==
    /\ pc = "annotate"
    /\ seg_idx < Len(segments)
    /\ LET r == annotate_span([panic |-> FALSE, lines |-> lines, origin |-> origin],
                              seg_idx, segments[seg_idx + 1])
       IN /\ pc' = IF r.panic THEN "panicked" ELSE "annotate"
          /\ lines' = r.lines
          /\ origin' = r.origin
    /\ seg_idx' = seg_idx + 1
    /\ UNCHANGED << source, file_segments, seg_i, segments, output >>
    /\ UNCHANGED << insert_vars, decode_vars, main_vars, color_vars >>

\* the template is rendered and the markers are replaced
RenderPage ==
    /\ pc = "annotate"
    /\ seg_idx = Len(segments)
    /\ output' = render_page(lines)
    /\ pc' = "done"
    /\ UNCHANGED << source, file_segments, seg_i, segments, seg_idx, lines, origin >>
    /\ UNCHANGED << insert_vars, decode_vars, main_vars, color_vars >>

Next ==
    \/ Deserialize
    \/ ReadSource
    \/ CollapseStep
    \/ ReverseSpans
    \/ AnnotateStep
    \/ RenderPage

Spec == Init /\ [][Next]_vars

\* ------------------------------------------------------------------------
\* insert_at_char on its own
\* ------------------------------------------------------------------------
InitInsert ==
    /\ RenderIdle
    /\ DecodeIdle
    /\ MainIdle
    /\ ColorIdle
    /\ ins_text \in TextsOf(MaxChars)
    /\ ins_before = <<>>
    /\ ins_index = 0
    /\ ins_marker = <<>>
    /\ ins_calls = 0
    /\ ins_panic = FALSE

InsertCall ==
    /\ ins_calls < MaxCalls
    /\ ~ins_panic
    /\ \E index \in 0..MaxIndex, s \in Markers :
          LET r == insert_at_char(ins_text, index, s)
          IN /\ ins_before' = ins_text
             /\ ins_index' = index
             /\ ins_marker' = s
             /\ ins_text' = r.text
             /\ ins_panic' = r.panic
    /\ ins_calls' = ins_calls + 1
    /\ UNCHANGED << render_vars, decode_vars, main_vars, color_vars >>

NextInsert == InsertCall

SpecInsert == InitInsert /\ [][NextInsert]_vars

\* ------------------------------------------------------------------------
\* Helpers of the properties
\* ------------------------------------------------------------------------
RECURSIVE SumCounts(_, _, _)
SumCounts(segs, from, to) ==
    IF from > to THEN 0 ELSE segs[from].count + SumCounts(segs, from + 1, to)

\* positions of the region entries of a segment list
EntryPositions(segs) == { i \in 1..Len(segs) : segs[i].is_region_entry }

\* the position of the k-th region entry
KthEntry(segs, k) ==
    CHOOSE i \in EntryPositions(segs) :
        Cardinality({ j \in EntryPositions(segs) : j <= i }) = k

\* the position just before the next region entry after i, or the end
LastOfSpan(segs, i) ==
    IF \E j \in EntryPositions(segs) : j > i
    THEN (CHOOSE j \in EntryPositions(segs) :
              j > i /\ \A m \in EntryPositions(segs) : m > i => m >= j) - 1
    ELSE Len(segs)

\* the segments the collapsing loop has consumed
Consumed == SubSeq(file_segments, 1, seg_i - 1)

\* the spans in the order the collapsing loop emitted them
SpansInFileOrder == IF pc = "collapse" THEN segments ELSE Reverse(segments)

FirstIsOrphan == file_segments # <<>> /\ ~file_segments[1].is_region_entry

AllAnnotated ==
    \/ pc = "done"
    \/ pc = "annotate" /\ seg_idx = Len(segments)

\* byte offsets (1-based) of line l that carry the tag
TagPositions(l, tag) == { o \in 1..Len(origin[l]) : origin[l][o] = tag }

\* the bytes of line l selected by keep, in order
RECURSIVE SelectBytes(_, _, _)
SelectBytes(l, keep, o) ==
    IF o > Len(lines[l]) THEN <<>>
    ELSE (IF o \in keep THEN <<lines[l][o]>> ELSE <<>>) \o SelectBytes(l, keep, o + 1)

\* line l with every byte of every inserted marker deleted
StripMarkers(l) == SelectBytes(l, TagPositions(l, <<"src", 0>>), 1)

\* the marker tags present on line l
TagsOn(l) == { origin[l][o] : o \in 1..Len(origin[l]) } \ { <<"src", 0>> }

MinOf(S) == CHOOSE x \in S : \A y \in S : x <= y
MaxOf(S) == CHOOSE x \in S : \A y \in S : x >= y

\* the marker stands in the line as one piece
Intact(l, tag) ==
    LET P == TagPositions(l, tag)
    IN MaxOf(P) - MinOf(P) + 1 = Cardinality(P)

\* where the begin and end markers that stand in one piece start on line l
BeginStarts(l) ==
    { MinOf(TagPositions(l, tag)) : tag \in { t \in TagsOn(l) : t[1] = "begin" /\ Intact(l, t) } }
EndStarts(l) ==
    { MinOf(TagPositions(l, tag)) : tag \in { t \in TagsOn(l) : t[1] = "end" /\ Intact(l, t) } }

\* scanning left to right, every end marker closes an open begin marker and
\* none stays open
LineWellFormed(l) ==
    /\ \A tag \in TagsOn(l) : Intact(l, tag)
    /\ Cardinality(BeginStarts(l)) = Cardinality(EndStarts(l))
    /\ \A e \in EndStarts(l) :
          Cardinality({ b \in BeginStarts(l) : b < e })
              > Cardinality({ e2 \in EndStarts(l) : e2 < e })

\* spans (by seg_idx) with both markers on line l, and the stretch of the
\* line between the first bytes of the two markers
SpansOn(l) ==
    { k \in 0..(Len(segments) - 1) :
        <<"begin", k>> \in TagsOn(l) /\ <<"end", k>> \in TagsOn(l) }
PairLo(l, k) ==
    LET b == MinOf(TagPositions(l, <<"begin", k>>))
        e == MinOf(TagPositions(l, <<"end", k>>))
    IN IF b < e THEN b ELSE e
PairHi(l, k) ==
    LET b == MinOf(TagPositions(l, <<"begin", k>>))
        e == MinOf(TagPositions(l, <<"end", k>>))
    IN IF b < e THEN e ELSE b

DisjointOrNested(l, j, k) ==
    \/ PairHi(l, j) < PairLo(l, k)
    \/ PairHi(l, k) < PairLo(l, j)
    \/ PairLo(l, j) < PairLo(l, k) /\ PairHi(l, k) < PairHi(l, j)
    \/ PairLo(l, k) < PairLo(l, j) /\ PairHi(l, j) < PairHi(l, k)

\* the page the substitution pass should return for line l: every source
\* byte as it is, every marker replaced where it starts
RECURSIVE ExpectedFrom(_, _)
ExpectedFrom(l, o) ==
    IF o > Len(lines[l]) THEN <<>>
    ELSE LET tag == origin[l][o]
         IN (IF tag[1] = "src" THEN <<ByteTok(lines[l][o])>>
             ELSE IF o # MinOf(TagPositions(l, tag)) THEN <<>>
             ELSE IF tag[1] = "end" THEN <<CloseTok>>
             ELSE <<OpenTok(Digits(tag[2]), Decimal(segments[tag[2] + 1].count))>>)
            \o ExpectedFrom(l, o + 1)

\* the wrappers of a page line, in order
Wrappers(toks) == SelectSeq(toks, LAMBDA tok : tok.t # "byte")

\* marker text left in a page line
MarkerTextLeft(toks) ==
    \E o \in 0..Len(toks) : LitAt(toks, o, StartPrefix) \/ LitAt(toks, o, EndMarker)

\* ------------------------------------------------------------------------
\* Properties
\* ------------------------------------------------------------------------
\* C1: while and after the collapsing loop runs without a panic, there is
\* exactly one span per region entry consumed, the k-th span starts at the
\* k-th region entry, and its count is that entry's count plus the counts of
\* the segments that follow it before the next region entry or the end.
C1_OneSpanPerEntry ==
    (pc \in {"collapse", "annotate", "done"}) =>
        LET segs == Consumed
            spans == SpansInFileOrder
        IN /\ Len(spans) = Cardinality(EntryPositions(segs))
           /\ \A k \in 1..Len(spans) :
                 LET e == KthEntry(segs, k)
                 IN /\ spans[k].start_row = segs[e].line
                    /\ spans[k].start_col = segs[e].col
                    /\ spans[k].count = SumCounts(segs, e, LastOfSpan(segs, e))

\* C1 witness: the loop has consumed an entry, a non-entry and another entry
C1_Witness ==
    /\ pc = "collapse"
    /\ seg_i = 4
    /\ Len(file_segments) = 3
    /\ file_segments[1].is_region_entry
    /\ ~file_segments[2].is_region_entry
    /\ file_segments[3].is_region_entry
    /\ Len(segments) = 2
    /\ segments[1].count = -1

\* C2: once every span is annotated, the file has as many lines as before
\* and each line, with the bytes of the inserted markers deleted, is the
\* original line; the deleted bytes of each marker spell that marker.
C2_RoundTrip ==
    AllAnnotated =>
        /\ Len(lines) = Len(source)
        /\ \A l \in 1..Len(lines) :
              /\ StripMarkers(l) = source[l]
              /\ \A tag \in TagsOn(l) :
                    SelectBytes(l, TagPositions(l, tag), 1) =
                        IF tag[1] = "end" THEN EndMarker
                        ELSE StartMarker(tag[2], segments[tag[2] + 1].count)

\* C2 witness: two spans annotated, one of them over several lines
C2_Witness ==
    /\ pc = "done"
    /\ Len(segments) >= 2
    /\ \E k \in 1..Len(segments) : segments[k].start_row < segments[k].stop_row
    /\ \E l \in 1..Len(lines) : Cardinality(TagsOn(l)) >= 4

\* C3: insert_at_char never fails and leaves valid UTF-8, for any line and
\* any character index.
C3_MultiByteSafe ==
    /\ ~ins_panic
    /\ ValidUtf8(ins_text)

\* C4: once every span is annotated, on every line each marker stands in one
\* piece, every end marker closes an open begin marker, and there are as
\* many begin markers as end markers.
C4_LinesWellFormed ==
    AllAnnotated => \A l \in 1..Len(lines) : LineWellFormed(l)

\* C5: once every span is annotated, on every line the marker pairs of any
\* two spans are disjoint or one lies inside the other.
C5_NoCrossing ==
    AllAnnotated =>
        \A l \in 1..Len(lines) :
            \A j \in SpansOn(l), k \in SpansOn(l) :
                j # k => DisjointOrNested(l, j, k)

\* C6: for an index below the number of characters, the result is the
\* characters before the index, then the inserted text, then the rest.
C6_InsertsBeforeIndexedChar ==
    (ins_calls > 0 /\ ins_index < CharCount(ins_before)) =>
        /\ ~ins_panic
        /\ LET off == char_indices(ins_before)[ins_index + 1]
           IN ins_text = SubSeq(ins_before, 1, off) \o ins_marker
                            \o SubSeq(ins_before, off + 1, Len(ins_before))

\* C7: for an index at or beyond the number of characters, the text is
\* appended at the end, the existing text is unchanged, and nothing fails.
C7_AppendsBeyondEnd ==
    (ins_calls > 0 /\ ins_index >= CharCount(ins_before)) =>
        /\ ~ins_panic
        /\ ins_text = ins_before \o ins_marker

\* C7 witness: a call at exactly the number of characters of a line that
\* holds a two-byte character
C7_Witness ==
    /\ ins_calls = 1
    /\ ins_index = CharCount(ins_before)
    /\ ins_index < Len(ins_before)
    /\ ins_text = ins_before \o ins_marker

\* C8: when the first segment is not a region entry, no span is ever
\* produced from the list, no page is returned, and the loop does not get
\* past that segment: the render has panicked.
C8_OrphanRejected ==
    FirstIsOrphan =>
        /\ segments = <<>>
        /\ output = <<>>
        /\ pc \in {"deserialize", "collapse", "panicked"}
        /\ (pc = "collapse" => seg_i = 1)

\* C8 witness: the render has panicked on a list of several segments that
\* starts with a non-entry
C8_Witness ==
    /\ FirstIsOrphan
    /\ Len(file_segments) >= 2
    /\ file_segments[2].is_region_entry
    /\ pc = "panicked"

\* C9: the returned page is the annotated lines with every begin marker
\* replaced by an opening wrapper carrying the span's index in the reversed
\* sequence and its count, every end marker replaced by a closing wrapper,
\* all other text unchanged, and no marker text left.
C9_AllMarkersReplaced ==
    (pc = "done") =>
        \A l \in 1..Len(lines) :
            /\ output[l] = ExpectedFrom(l, 1)
            /\ ~MarkerTextLeft(output[l])

CharOffset(text, m) ==
    IF m >= CharCount(text) THEN Len(text) ELSE char_indices(text)[m + 1]

\* the first m characters of line l are still the first m characters of the
\* source line, with nothing inserted among or before them
PrefixKept(l, m) ==
    LET off == CharOffset(source[l], m)
    IN /\ Len(lines[l]) >= off
       /\ \A o \in 1..off :
             lines[l][o] = source[l][o] /\ origin[l][o] = <<"src", 0>>

\* the spans the annotation loop has not reached yet (1-based positions)
Unprocessed == (seg_idx + 1)..Len(segments)

\* the (row, column) pairs a span hands to insert_at_char
Ends(segment) ==
    { <<segment.start_row, segment.start_col>>,
      <<segment.stop_row, segment.stop_col>> }

\* C15 as stated: while the annotation loop runs, for every span not yet
\* processed and each of its columns, the characters before the column and
\* the character at the column are still the original ones.
C15_ColumnCharKept ==
    (pc = "annotate") =>
        \A j \in Unprocessed : \A rc \in Ends(segments[j]) :
            PrefixKept(rc[1], rc[2])

\* C15 as amended: while the annotation loop runs, for every span not yet
\* processed and each of its columns, the characters before the column are
\* still the original ones: every insertion made so far lies at or after
\* the column.
C15_PrefixBeforeColumnKept ==
    (pc = "annotate") =>
        \A j \in Unprocessed : \A rc \in Ends(segments[j]) :
            PrefixKept(rc[1], rc[2] - 1)

\* C15 witness: one span is annotated and the next one to process ends on
\* the line, and at the column, where the annotated one starts
C15_Witness ==
    /\ pc = "annotate"
    /\ seg_idx = 1
    /\ Len(segments) >= 2
    /\ segments[2].stop_row = segments[1].start_row
    /\ segments[2].stop_col = segments[1].start_col
    /\ segments[2].start_col < segments[2].stop_col
    /\ TagsOn(segments[1].start_row) # {}

\* the lines a span covers
RowsOf(segment) == segment.start_row..segment.stop_row

\* C16: once every span is annotated, the file has as many lines as before,
\* a line no span covers is the source line, and every span has put exactly
\* one begin marker and one end marker on each line it covers and nothing
\* on any other line.
C16_Frame ==
    AllAnnotated =>
        /\ Len(lines) = Len(source)
        /\ \A l \in 1..Len(lines) :
              /\ (\A k \in 1..Len(segments) : l \notin RowsOf(segments[k]))
                    => lines[l] = source[l]
              /\ \A k \in 1..Len(segments) :
                    LET nb == Cardinality(TagPositions(l, <<"begin", k - 1>>))
                        ne == Cardinality(TagPositions(l, <<"end", k - 1>>))
                    IN IF l \in RowsOf(segments[k])
                       THEN /\ nb = Len(StartMarker(k - 1, segments[k].count))
                            /\ ne = Len(EndMarker)
                       ELSE nb = 0 /\ ne = 0

\* C16 witness: a span over three lines is annotated next to a line that no
\* span covers
C16_Witness ==
    /\ pc = "done"
    /\ \E k \in 1..Len(segments) :
          segments[k].stop_row = segments[k].start_row + 2
    /\ Len(segments) >= 2

\* ------------------------------------------------------------------------
\* Decoding the positional arrays of the report
\* ------------------------------------------------------------------------
\* A serde_json Value by what as_i64 and as_bool make of it: a number that
\* fits an i64, a boolean, or anything else (here a string)
JsonKinds == {"int", "bool", "string"}

\* FileSegment: other[0..2].as_i64(), other[3..5].as_bool()
SegmentFields == <<"int", "int", "int", "bool", "bool", "bool">>
\* Region: eight as_i64()
RegionFields == <<"int", "int", "int", "int", "int", "int", "int", "int">>
\* FileBranch: nine as_i64()
BranchFields == <<"int", "int", "int", "int", "int", "int", "int", "int", "int">>

FieldsOf(target) ==
    CASE target = "segment" -> SegmentFields
      [] target = "region" -> RegionFields
      [] target = "branch" -> BranchFields

\* the array has the arity and the field types of its target
WellTyped(fields, values) ==
    /\ Len(values) = Len(fields)
    /\ \A k \in 1..Len(fields) : values[k] = fields[k]

\* Deserialize for FileSegment, Region and FileBranch: <[Value; N]>::deserialize
\* returns Err on any other length; From then unwraps as_i64 / as_bool of
\* every field, which panics on a value of another type
deserialize(fields, values) ==
    IF Len(values) # Len(fields) THEN "error"
    ELSE IF \E k \in 1..Len(fields) : values[k] # fields[k] THEN "panic"
    ELSE "ok"

InitDecode ==
    /\ RenderIdle
    /\ InsertIdle
    /\ MainIdle
    /\ ColorIdle
    /\ dec_target \in {"segment", "region", "branch"}
    /\ dec_input = <<>>
    /\ dec_result = "none"

\* the next value of the JSON array is read
ReadValue ==
    /\ dec_result = "none"
    /\ Len(dec_input) < Len(FieldsOf(dec_target)) + MaxExtra
    /\ \E kind \in JsonKinds : dec_input' = Append(dec_input, kind)
    /\ UNCHANGED << dec_target, dec_result >>
    /\ UNCHANGED << render_vars, insert_vars, main_vars, color_vars >>

\* the array ends and is decoded
DecodeArray ==
    /\ dec_result = "none"
    /\ dec_result' = deserialize(FieldsOf(dec_target), dec_input)
    /\ UNCHANGED << dec_target, dec_input >>
    /\ UNCHANGED << render_vars, insert_vars, main_vars, color_vars >>

NextDecode ==
    \/ ReadValue
    \/ DecodeArray

SpecDecode == InitDecode /\ [][NextDecode]_vars

\* C11: an array whose arity or field types do not match its target is
\* answered with a parse error value, never with a panic (and never
\* accepted).
C11_MismatchIsError ==
    (dec_result # "none" /\ ~WellTyped(FieldsOf(dec_target), dec_input))
        => dec_result = "error"

\* ------------------------------------------------------------------------
\* color_for_percent
\* ------------------------------------------------------------------------
\* An f64 percent: NaN, or whole + a fraction in [0, 1) that is zero unless
\* frac is set.  Every comparison of the code is against a whole number, so
\* whole decides it: whole + fraction < n iff whole < n.
Percents ==
    { [nan |-> TRUE, whole |-> 0, frac |-> FALSE] } \cup
    [nan : {FALSE}, whole : (0 - MaxBelowZero)..MaxPercent, frac : BOOLEAN]

\* i if i < 75.0 => "red"
RedBelow == 75
\* i if i >= 75.0 && i < 90.0 => "yellow"
YellowBelow == 90

\* match percent { .. }: NaN fails all three guards and reaches
\* unimplemented!()
color_for_percent(p) ==
    IF p.nan THEN "panic"
    ELSE IF p.whole < RedBelow THEN "red"
    ELSE IF p.whole < YellowBelow THEN "yellow"
    ELSE "green"

InitColor ==
    /\ RenderIdle
    /\ InsertIdle
    /\ DecodeIdle
    /\ MainIdle
    /\ percent \in Percents
    /\ color = "none"

ColorForPercent ==
    /\ color = "none"
    /\ color' = color_for_percent(percent)
    /\ UNCHANGED percent
    /\ UNCHANGED << render_vars, insert_vars, decode_vars, main_vars >>

NextColor == ColorForPercent

SpecColor == InitColor /\ [][NextColor]_vars

\* C13: a negative percent is rejected: color_for_percent fails and returns
\* none of "red", "yellow", "green" for it.
C13_NegativeRejected ==
    (color # "none" /\ ~percent.nan /\ percent.whole < 0) => color = "panic"

\* ------------------------------------------------------------------------
\* main: parse the report, then write the pages
\* ------------------------------------------------------------------------
SeqsUpTo(S, n) == UNION { [1..k -> S] : k \in 0..n }

\* The "version" value of the report: a string semver::Version parses, a
\* string it does not parse, or a value that is no string
Versions == {"semver", "text", "int"}

DeserFromStrLenient(version) == "ok"

\* String::deserialize(deserializer)? then T::from_str(&s).map_err(..)
deser_from_str(version) ==
    IF version = "semver" THEN "ok" ELSE "error"

SegmentShort == SubSeq(SegmentFields, 1, Len(SegmentFields) - 1)
SegmentMistyped == [SegmentFields EXCEPT ![Len(SegmentFields)] = "int"]
BranchMistyped == [BranchFields EXCEPT ![1] = "string"]

\* the positional arrays a generated report is made of
ArraySamples ==
    { [target |-> "segment", values |-> SegmentFields],
      [target |-> "segment", values |-> SegmentShort],
      [target |-> "segment", values |-> SegmentMistyped],
      [target |-> "region", values |-> RegionFields],
      [target |-> "region", values |-> Append(RegionFields, "int")],
      [target |-> "branch", values |-> BranchMistyped] }

SrcPrefix == <<"s", "r", "c", "/">>
HtmlSuffix == <<".", "h", "t", "m", "l">>

\* the filenames of a generated report: src/a/b, src/a_b, lib/a
Filenames ==
    { SrcPrefix \o <<"a", "/", "b">>,
      SrcPrefix \o <<"a", "_", "b">>,
      <<"l", "i", "b", "/", "a">> }

IndexHtml == <<"i", "n", "d", "e", "x">> \o HtmlSuffix
StyleCss == <<"s", "t", "y", "l", "e", ".", "c", "s", "s">>
FunctionsHtml == <<"f", "u", "n", "c", "t", "i", "o", "n", "s">> \o HtmlSuffix

Reports ==
    [ version : Versions,
      arrays : SeqsUpTo(ArraySamples, MaxArrays),
      files : SeqsUpTo(Filenames, MaxFiles) ]

\* format!("{}.html", input.replace("/", "_"))
sanitize_filename(input) ==
    [k \in 1..Len(input) |-> IF input[k] = "/" THEN "_" ELSE input[k]]
        \o HtmlSuffix

starts_with(text, prefix) ==
    /\ Len(text) >= Len(prefix)
    /\ SubSeq(text, 1, Len(prefix)) = prefix

\* .filter(|x| x.filename.starts_with("src/"))
file_coverage_from(k, files) ==
    LET F[i \in k..(Len(files) + 1)] ==
            IF i > Len(files) THEN <<>>
            ELSE IF starts_with(files[i], SrcPrefix)
                 THEN <<files[i]>> \o F[i + 1]
                 ELSE F[i + 1]
    IN F[k]

file_coverage == file_coverage_from(1, report.files)

\* std::fs::write(path, contents): creates the file or replaces its contents
fs_write(files, path, of) ==
    { e \in files : e.path # path } \cup { [path |-> path, of |-> of] }

InitMain ==
    /\ RenderIdle
    /\ InsertIdle
    /\ DecodeIdle
    /\ ColorIdle
    /\ main_pc = "parse"
    /\ report \in Reports
    /\ parse_i = 0
    /\ file_i = 0
    /\ dir = {}

\* serde_json::from_str(..)?: the next positional array of the document.
\* An Err leaves main through `?`, a panic unwinds it.
ParseArray ==
    /\ main_pc = "parse"
    /\ parse_i < Len(report.arrays)
    /\ LET array == report.arrays[parse_i + 1]
           result == deserialize(FieldsOf(array.target), array.values)
       IN main_pc' = IF result = "ok" THEN "parse"
                     ELSE IF result = "error" THEN "error"
                     ELSE "panicked"
    /\ parse_i' = parse_i + 1
    /\ UNCHANGED << report, file_i, dir >>
    /\ UNCHANGED << render_vars, insert_vars, decode_vars, color_vars >>

\* serde_json::from_str(..)?: the version, after the data
ParseVersion ==
    /\ main_pc = "parse"
    /\ parse_i = Len(report.arrays)
    /\ main_pc' = IF deser_from_str(report.version) = "ok" THEN "mkdir"
                  ELSE "error"
    /\ UNCHANGED << report, parse_i, file_i, dir >>
    /\ UNCHANGED << render_vars, insert_vars, decode_vars, color_vars >>

\* the output directory is found or created; metadata and create_dir may fail
CreateOutputDir ==
    /\ main_pc = "mkdir"
    /\ \E ok \in BOOLEAN : main_pc' = IF ok THEN "files" ELSE "error"
    /\ UNCHANGED << report, parse_i, file_i, dir >>
    /\ UNCHANGED << render_vars, insert_vars, decode_vars, color_vars >>

\* one turn of `for file in file_coverage.iter()`: the source is opened, the
\* page rendered (which may panic) and written under its sanitized name
RenderFilePage ==
    /\ main_pc = "files"
    /\ file_i < Len(file_coverage)
    /\ \E outcome \in {"ok", "error", "panicked"} :
         LET filename == file_coverage[file_i + 1]
         IN IF outcome = "ok"
            THEN /\ dir' = fs_write(dir, sanitize_filename(filename), filename)
                 /\ file_i' = file_i + 1
                 /\ main_pc' = "files"
            ELSE /\ main_pc' = outcome
                 /\ UNCHANGED << file_i, dir >>
    /\ UNCHANGED << report, parse_i >>
    /\ UNCHANGED << render_vars, insert_vars, decode_vars, color_vars >>

\* a fixed page is written; then main goes on to `then`
WriteFixed(at, path, then) ==
    /\ main_pc = at
    /\ \E ok \in BOOLEAN :
         IF ok
         THEN /\ dir' = fs_write(dir, path, path)
              /\ main_pc' = then
         ELSE /\ main_pc' = "error"
              /\ UNCHANGED dir
    /\ UNCHANGED << report, parse_i, file_i >>
    /\ UNCHANGED << render_vars, insert_vars, decode_vars, color_vars >>

WriteIndex ==
    /\ file_i = Len(file_coverage)
    /\ WriteFixed("files", IndexHtml, "style")

WriteStyle == WriteFixed("style", StyleCss, "functions")

WriteFunctions == WriteFixed("functions", FunctionsHtml, "done")

NextMain ==
    \/ ParseArray
    \/ ParseVersion
    \/ CreateOutputDir
    \/ RenderFilePage
    \/ WriteIndex
    \/ WriteStyle
    \/ WriteFunctions

SpecMain == InitMain /\ [][NextMain]_vars

\* the report has a positional array of the wrong arity or type, or a
\* version that does not parse
Malformed ==
    \/ \E k \in 1..Len(report.arrays) :
         ~WellTyped(FieldsOf(report.arrays[k].target), report.arrays[k].values)
    \/ report.version # "semver"

\* C12: when the report is malformed, nothing is ever written: no per-file
\* page, no index page, no function listing, no stylesheet; main never gets
\* past parsing.
C12_MalformedWritesNothing ==
    Malformed => /\ dir = {}
                 /\ main_pc \in {"parse", "error", "panicked"}

\* a report with files to render and well-formed arrays is refused for its
\* version alone, after every array was decoded
C12_Witness ==
    /\ main_pc = "error"
    /\ report.version = "text"
    /\ parse_i = Len(report.arrays)
    /\ parse_i > 0
    /\ Len(file_coverage) > 0

\* the files rendered so far
Rendered == { file_coverage[k] : k \in 1..file_i }

\* C14: two distinct rendered filenames have distinct sanitized names, and
\* the page of every rendered file is still in the output directory under
\* its own name (no other file's page was written over it).
C14_DistinctOutputNames ==
    /\ \A f, g \in Rendered :
         f # g => sanitize_filename(f) # sanitize_filename(g)
    /\ \A f \in Rendered :
         [path |-> sanitize_filename(f), of |-> f] \in dir

====
